---- MODULE Spec2Model ----
(***************************************************************************)
(* State-machine model of the concurrent evaluation orchestrators of the   *)
(* repository:                                                             *)
(*   - generate_character_dialogue.py: per-site fan-out over characters,   *)
(*     a summary call, as_completed emission and the retry_failed ledger;  *)
(*   - generate_hypotheses.py (step 5): per-cluster fan-out with one       *)
(*     gather over all tasks and a sequential narrator loop.               *)
(* One evaluator request together with its response is one step: the      *)
(* coroutine does nothing between sending a request and resuming on its    *)
(* reply.  The random backoff sleep between attempts changes no state.     *)
(***************************************************************************)
EXTENDS Integers, Sequences, FiniteSets, TLC

\* ---------------------------------------------------------------- bounds
\* Number of rows of top_sites.geojson / clusters of the batch.
NumUnits == 2

\* Number of rows of the table score_candidate_sites reads.
NumRows == 1

\* Largest number of rows of the scored file generate_hypotheses reads.
NumSites == 7

\* Largest number of characters in a file json_comments_to_scores reads.
NumChars == 2

\* ------------------------------------------------------------- constants
\* A ceiling that gives up one attempt early.
StopAfterAttemptEarly == 5 - 1

\* stop=stop_after_attempt(5) of the tenacity decorator.
StopAfterAttempt == 5

\* gdf.iterrows() indices.
Units == 0 .. (NumUnits - 1)

\* Non-summary keys of prompt_cfg (two of the five personas of the script).
Chars == {"explorer", "skeptic"}

\* The keyword arguments the summary template is formatted with.
OpinionKeys == {"explorer", "engineer", "skeptic", "historian", "ecologist"}

\* Exception types an evaluator request can end with.
TransientError == "RateLimitError"
FatalError == "AuthenticationError"

\* f"site_{idx:03d}": the prefix and the index in three zero-padded digits.
Digit(d) == <<"0", "1", "2", "3", "4", "5", "6", "7", "8", "9">>[d + 1]
SiteId(idx) == "site_" \o Digit((idx \div 100) % 10) \o Digit((idx \div 10) % 10)
                       \o Digit(idx % 10)

\* The evaluator's reply to the prompt of character c for unit u.
Reply(u, c) == [kind |-> "text", unit |-> u, char |-> c]

\* f"[Error] {type(e).__name__}: {e}"
ErrorText(e) == [kind |-> "[Error]", type |-> e]

\* A value not produced yet.
Unset == [kind |-> "unset"]

\* An exception leaving a coroutine.
Raised(e) == [kind |-> "raise", type |-> e]

\* characters.get(k, "") for a missing key.
EmptyText == [kind |-> "text", unit |-> -1, char |-> ""]

VARIABLES
    script,          \* which entry point runs: "dialogue" or "hypotheses"
    prompt_cfg,      \* [summary: BOOLEAN, broken: keys whose template cannot be rendered]
    geometry,        \* geometry[u]: TRUE iff row u has a geometry with a centroid
    credential_ok,   \* FALSE iff the evaluator rejects the API key on every request
    site_pc,         \* position of evaluate_site(u)
    attempt_number,  \* attempt_number[u][k]: failed requests in a row of the call of key k
    char_results,    \* char_results[u][c]: what evaluate_character returned (or raised)
    summary_input,   \* summary_input[u]: the opinions the summary template was filled with
    site_result,     \* what evaluate_site(u) returned or raised
    completed,       \* as_completed: units in the order their coroutine finished
    outputs,         \* outputs[u]: content of <output_dir>/<site_id>.json
    failed,          \* the failed list of main
    retry_failed,    \* content of retry_failed.json
    main_pc,         \* position of generate_character_dialogue.main
    responses,       \* responses[cid][char]: result of the task with meta (cid, char)
    cluster_results, \* cluster_results[cid]: dict char -> text, built after the gather
    narrator_input,  \* narrator_input[cid]: the texts joined for the narrator
    narrator_results,\* narrator_results[cid]
    report,          \* report[cid]: the section of cluster cid in the Markdown file
    hyp_pc,          \* position of generate_hypotheses.main
    df,              \* score_candidate_sites: the table read from --in
    cfg,             \* score_candidate_sites: the weights configuration
    site_score,      \* the site_score column (one value per row)
    score_pc,        \* position of score_candidate_sites.main
    gdf,             \* generate_hypotheses: the scored sites read from --input
    cluster_cfg,     \* generate_hypotheses: configs/cluster.yml
    gdf_proj,        \* the projected top sites with their cluster column
    records,         \* the per-cluster records of step 4
    geojson,         \* content of the cluster polygon file (--out_geojson)
    scoring          \* json_comments_to_scores: the state of process_json_file

dialogue_vars == <<site_pc, char_results, summary_input, site_result, completed,
                   outputs, failed, retry_failed, main_pc>>
hypotheses_vars == <<responses, cluster_results, narrator_input, narrator_results,
                     report, hyp_pc>>
config_vars == <<script, prompt_cfg, geometry, credential_ok>>
score_vars == <<df, cfg, site_score, score_pc>>
cluster_vars == <<gdf, cluster_cfg, gdf_proj, records, geojson>>
vars == <<config_vars, attempt_number, dialogue_vars, hypotheses_vars,
          score_vars, cluster_vars, scoring>>

\* Keys of prompt_cfg (dialogue); char_prompts plus the narrator (hypotheses).
Keys == Chars \cup {"summary"}

\* ------------------------------------------------------------ retry policy
\* A stop condition that allows one request too many.
ShouldStopLate(n) == n > StopAfterAttempt

\* stop_after_attempt(5): stop once the attempt number has reached the ceiling.
ShouldStop(n) == n >= StopAfterAttempt

\* Outcomes one request can have: the reply, or an exception type.
Outcomes == IF credential_ok THEN {"ok", TransientError} ELSE {FatalError}

\* @retry(wait=..., stop=stop_after_attempt(5), reraise=True) around one
\* request, shared by call_chat_async and call_gpt_async: the result of
\* attempt n (1-based) with outcome o is the reply, the re-raised exception,
\* or Unset when the call sleeps and tries again.  No retry= predicate is
\* given, so an exception of any type is retried.
RetryResult(n, o, reply) ==
    IF o = "ok" THEN reply
    ELSE IF ShouldStop(n) THEN Raised(o)
    ELSE Unset

\* The attempt number kept after attempt n: the number of the request that
\* failed last, and 0 again once the call has returned a reply.
AttemptAfter(n, r) == IF r.kind = "text" THEN 0 ELSE n

\* dict.get(k, "")
Get(d, k) == IF k \in DOMAIN d THEN d[k] ELSE EmptyText

\* -------------------------------------------------------------------- Init
\* score_candidate_sites is not running.
ScoreOff ==
    /\ df = Unset
    /\ cfg = Unset
    /\ site_score = Unset
    /\ score_pc = "off"

\* Steps 1 to 4 of generate_hypotheses.main are over (or the script is not
\* running): the model of step 5 onwards takes its clusters from Units.
ClusterOff ==
    /\ gdf = Unset
    /\ cluster_cfg = Unset
    /\ gdf_proj = Unset
    /\ records = Unset
    /\ geojson = Unset

\* json_comments_to_scores is not running.
ScoringOff == scoring = Unset

Init ==
    /\ script \in {"dialogue", "hypotheses"}
    /\ prompt_cfg \in [summary : BOOLEAN, broken : SUBSET Keys]
    /\ ("summary" \in prompt_cfg.broken) => prompt_cfg.summary
    /\ geometry \in [Units -> BOOLEAN]
    /\ credential_ok \in BOOLEAN
    /\ script = "hypotheses" =>
          /\ prompt_cfg = [summary |-> TRUE, broken |-> {}]
          /\ geometry = [u \in Units |-> TRUE]
    /\ site_pc = [u \in Units |-> "created"]
    /\ attempt_number = [u \in Units |-> [k \in Keys |-> 0]]
    /\ char_results = [u \in Units |-> [c \in Chars |-> Unset]]
    /\ summary_input = [u \in Units |-> Unset]
    /\ site_result = [u \in Units |-> Unset]
    /\ completed = <<>>
    /\ outputs = [u \in Units |-> Unset]
    /\ failed = <<>>
    /\ retry_failed = Unset
    /\ main_pc = IF script = "dialogue" THEN "loop" ELSE "off"
    /\ responses = [u \in Units |-> [c \in Chars |-> Unset]]
    /\ cluster_results = [u \in Units |-> Unset]
    /\ narrator_input = [u \in Units |-> Unset]
    /\ narrator_results = [u \in Units |-> Unset]
    /\ report = [u \in Units |-> Unset]
    /\ hyp_pc = IF script = "hypotheses" THEN "gather" ELSE "off"
    /\ ScoreOff
    /\ ClusterOff
    /\ ScoringOff

\* ----------------------------------------------------------- evaluate_site
\* evaluate_site(u) finishes by raising e: as_completed queues it.
SiteRaise(u, e) ==
    /\ site_pc' = [site_pc EXCEPT ![u] = "raised"]
    /\ site_result' = [site_result EXCEPT ![u] = Raised(e)]
    /\ completed' = Append(completed, u)

\* First step of evaluate_site: the centroid and info, then the fan-out.
SiteStart(u) ==
    /\ main_pc = "loop"
    /\ site_pc[u] = "created"
    /\ IF geometry[u]
       THEN /\ site_pc' = [site_pc EXCEPT ![u] = "gather"]
            /\ UNCHANGED <<site_result, completed>>
       ELSE SiteRaise(u, "AttributeError")
    /\ UNCHANGED <<scoring, score_vars, cluster_vars, config_vars, attempt_number, char_results, summary_input,
                   outputs, failed, retry_failed, main_pc, hypotheses_vars>>

\* as_completed schedules every evaluate_site before main first waits, and the
\* event loop runs each scheduled first step before it polls for a reply.
AllStarted == \A u \in Units : site_pc[u] # "created"

\* The children of a gather render their prompts in their first step, which
\* the loop runs right after the fan-out: a template that cannot be rendered
\* has raised before the reply to any request arrives.
AllRendered ==
    \A u \in Units : \A c \in Chars :
        (geometry[u] /\ c \in prompt_cfg.broken) => char_results[u][c] # Unset

\* evaluate_character(u, c): render the prompt (KeyError when the template
\* names a key info lacks), then one request of call_chat_async; an exception
\* leaving call_chat_async becomes the error text.  A child of a gather that
\* has already raised keeps running until main ends.
CharAttempt(u, c) ==
    /\ main_pc = "loop"
    /\ AllStarted
    /\ geometry[u]
    /\ char_results[u][c] = Unset
    /\ IF c \in prompt_cfg.broken
       THEN /\ char_results' = [char_results EXCEPT ![u][c] = Raised("KeyError")]
            /\ UNCHANGED attempt_number
       ELSE /\ AllRendered
            /\ \E o \in Outcomes :
                  LET n == attempt_number[u][c] + 1
                      r == RetryResult(n, o, Reply(u, c))
                  IN /\ attempt_number' =
                           [attempt_number EXCEPT ![u][c] = AttemptAfter(n, r)]
                     /\ char_results' = [char_results EXCEPT ![u][c] =
                           IF r.kind = "raise" THEN ErrorText(r.type) ELSE r]
    /\ UNCHANGED <<scoring, score_vars, cluster_vars, config_vars, site_pc, summary_input, site_result, completed,
                   outputs, failed, retry_failed, main_pc, hypotheses_vars>>

\* A join that returns with the first child that has returned.
GatherReturnedAny(res) == \E c \in DOMAIN res : res[c].kind \in {"text", "[Error]"}

\* asyncio.gather(*aws) without return_exceptions, on the results res of its
\* children: it raises as soon as one child has raised and returns once every
\* child has returned.
GatherRaised(res) == \E c \in DOMAIN res : res[c].kind = "raise"
GatherReturned(res) == \A c \in DOMAIN res : res[c].kind \in {"text", "[Error]"}

\* A mapping that loses the entry of one character.
charactersDropOne(u) == [c \in Chars \ {"skeptic"} |-> char_results[u][c]]

\* characters = {k: v for k, v in char_results}
characters(u) == char_results[u]

\* The record evaluate_site returns.
Record(u, summary_text) ==
    [kind |-> "record", site_id |-> SiteId(u), characters |-> characters(u),
     summary |-> summary_text]

SiteReturn(u, summary_text) ==
    /\ site_pc' = [site_pc EXCEPT ![u] = "returned"]
    /\ site_result' = [site_result EXCEPT ![u] = Record(u, summary_text)]
    /\ completed' = Append(completed, u)

\* evaluate_site resumes from the gather; with a summary configured it
\* renders the summary prompt from characters.get(<persona>, "").
SiteGather(u) ==
    /\ main_pc = "loop"
    /\ site_pc[u] = "gather"
    /\ \/ /\ GatherRaised(char_results[u])
          /\ SiteRaise(u, "KeyError")
          /\ UNCHANGED summary_input
       \/ /\ ~GatherRaised(char_results[u])
          /\ GatherReturned(char_results[u])
          /\ IF prompt_cfg.summary
             THEN IF "summary" \in prompt_cfg.broken
                  THEN SiteRaise(u, "KeyError") /\ UNCHANGED summary_input
                  ELSE /\ summary_input' = [summary_input EXCEPT ![u] =
                              [k \in OpinionKeys |-> Get(characters(u), k)]]
                       /\ site_pc' = [site_pc EXCEPT ![u] = "summary"]
                       /\ UNCHANGED <<site_result, completed>>
             ELSE SiteReturn(u, EmptyText) /\ UNCHANGED summary_input
    /\ UNCHANGED <<scoring, score_vars, cluster_vars, config_vars, attempt_number, char_results, outputs, failed,
                   retry_failed, main_pc, hypotheses_vars>>

\* One request of the summary's call_chat_async (no try/except around it).
SummaryAttempt(u) ==
    /\ main_pc = "loop"
    /\ site_pc[u] = "summary"
    /\ \E o \in Outcomes :
         LET n == attempt_number[u]["summary"] + 1
             r == RetryResult(n, o, Reply(u, "summary"))
         IN /\ attempt_number' = [attempt_number EXCEPT ![u]["summary"] = AttemptAfter(n, r)]
            /\ IF r.kind = "raise" THEN SiteRaise(u, r.type)
               ELSE IF r.kind = "text" THEN SiteReturn(u, r)
               ELSE UNCHANGED <<site_pc, site_result, completed>>
    /\ UNCHANGED <<scoring, score_vars, cluster_vars, config_vars, char_results, summary_input, outputs, failed,
                   retry_failed, main_pc, hypotheses_vars>>

\* ------------------------------------------- generate_character_dialogue.main
\* One iteration of `for coro in asyncio.as_completed(tasks)`.
MainNext ==
    /\ main_pc = "loop"
    /\ AllStarted
    /\ completed # <<>>
    /\ LET u == Head(completed)
           result == site_result[u]
       IN /\ completed' = Tail(completed)
          /\ IF result.kind = "raise"
             THEN /\ failed' = Append(failed, <<"unknown", result.type>>)
                  /\ UNCHANGED outputs
             ELSE /\ outputs' = [outputs EXCEPT ![u] = result]
                  /\ UNCHANGED failed
    /\ UNCHANGED <<scoring, score_vars, cluster_vars, config_vars, attempt_number, site_pc, char_results,
                   summary_input, site_result, retry_failed, main_pc,
                   hypotheses_vars>>

\* Every coroutine was consumed: leave the loop, write the ledger if any.
MainFinish ==
    /\ main_pc = "loop"
    /\ completed = <<>>
    /\ \A u \in Units : site_pc[u] \in {"returned", "raised"}
    /\ main_pc' = "done"
    /\ retry_failed' = IF failed # <<>> THEN [kind |-> "ledger", entries |-> failed]
                       ELSE retry_failed
    /\ UNCHANGED <<scoring, score_vars, cluster_vars, config_vars, attempt_number, site_pc, char_results,
                   summary_input, site_result, completed, outputs, failed,
                   hypotheses_vars>>

\* ------------------------------------------------ generate_hypotheses.main
\* One request of the task created for (cid, char): call_gpt_async.
GptAttempt(cid, char) ==
    /\ hyp_pc = "gather"
    /\ responses[cid][char] = Unset
    /\ \E o \in Outcomes :
         LET n == attempt_number[cid][char] + 1
             r == RetryResult(n, o, Reply(cid, char))
         IN /\ attempt_number' = [attempt_number EXCEPT ![cid][char] = AttemptAfter(n, r)]
            /\ responses' = [responses EXCEPT ![cid][char] = r]
    /\ UNCHANGED <<scoring, score_vars, cluster_vars, config_vars, dialogue_vars, cluster_results, narrator_input,
                   narrator_results, report, hyp_pc>>

\* responses = await asyncio.gather(*tasks) over the tasks of every cluster,
\* then cluster_results.setdefault(cid, {})[char] = res.  An exception leaves
\* main: asyncio.run cancels what is still running and nothing is written.
AllResponses == [t \in Units \X Chars |-> responses[t[1]][t[2]]]

\* char_prompts.items(): the characters in the order of the template file.
CharSeq == <<"explorer", "skeptic">>

\* tasks: the meta (cid, char) of each task in the order of creation, one
\* cluster row after the other and, within a row, one character after the other.
tasks ==
    [i \in 1 .. (NumUnits * Len(CharSeq)) |->
        <<(i - 1) \div Len(CharSeq), CharSeq[((i - 1) % Len(CharSeq)) + 1]>>]

\* A result list that follows another order than the task list.
GatheredRotated ==
    [i \in DOMAIN tasks |->
        LET j == (i % Len(tasks)) + 1
        IN responses[tasks[j][1]][tasks[j][2]]]

\* The list asyncio.gather returns: the result of every awaitable, in the
\* order the awaitables were passed, whatever the order of completion.
Gathered == [i \in DOMAIN tasks |-> responses[tasks[i][1]][tasks[i][2]]]

\* for t, res in zip(tasks, responses):
\*     cluster_results.setdefault(cid, {})[char] = res
ZipResults(ts, res) ==
    [cid \in {ts[i][1] : i \in DOMAIN ts} |->
        [char \in {ts[i][2] : i \in {j \in DOMAIN ts : ts[j][1] = cid}} |->
            LET last == CHOOSE i \in DOMAIN ts :
                            /\ ts[i] = <<cid, char>>
                            /\ \A j \in DOMAIN ts : ts[j] = <<cid, char>> => j <= i
            IN res[last]]]

HypGather ==
    /\ hyp_pc = "gather"
    /\ \/ /\ GatherRaised(AllResponses)
          /\ hyp_pc' = "aborted"
          /\ UNCHANGED cluster_results
       \/ /\ ~GatherRaised(AllResponses)
          /\ GatherReturned(AllResponses)
          /\ cluster_results' = ZipResults(tasks, Gathered)
          /\ hyp_pc' = "narrate"
    /\ UNCHANGED <<scoring, score_vars, cluster_vars, config_vars, attempt_number, dialogue_vars, responses,
                   narrator_input, narrator_results, report>>

\* for cid, char_dict in cluster_results.items(): clusters in insertion order,
\* one narrator call at a time.
NextCluster == CHOOSE cid \in Units :
                  /\ narrator_results[cid] = Unset
                  /\ \A d \in Units : narrator_results[d] = Unset => cid <= d

NarratorAttempt ==
    /\ hyp_pc = "narrate"
    /\ \E cid \in Units : narrator_results[cid] = Unset
    /\ \E o \in Outcomes :
         LET cid == NextCluster
             n == attempt_number[cid]["summary"] + 1
             r == RetryResult(n, o, Reply(cid, "summary"))
         IN /\ attempt_number' = [attempt_number EXCEPT ![cid]["summary"] = AttemptAfter(n, r)]
            /\ narrator_input' = [narrator_input EXCEPT ![cid] = cluster_results[cid]]
            /\ IF r.kind = "raise"
               THEN hyp_pc' = "aborted" /\ UNCHANGED narrator_results
               ELSE /\ narrator_results' = [narrator_results EXCEPT ![cid] = r]
                    /\ UNCHANGED hyp_pc
    /\ UNCHANGED <<scoring, score_vars, cluster_vars, config_vars, dialogue_vars, responses, cluster_results, report>>

\* 6. the Markdown report, one section per cluster.
HypWrite ==
    /\ hyp_pc = "narrate"
    /\ \A cid \in Units : narrator_results[cid] # Unset
    /\ report' = [cid \in Units |->
                    [kind |-> "section", characters |-> cluster_results[cid],
                     summary |-> narrator_results[cid]]]
    /\ hyp_pc' = "written"
    /\ UNCHANGED <<scoring, score_vars, cluster_vars, config_vars, attempt_number, dialogue_vars, responses,
                   cluster_results, narrator_input, narrator_results>>

\* -------------------------------------------------------------------- Next
Next ==
    \/ \E u \in Units : SiteStart(u)
    \/ \E u \in Units : \E c \in Chars : CharAttempt(u, c)
    \/ \E u \in Units : SiteGather(u)
    \/ \E u \in Units : SummaryAttempt(u)
    \/ MainNext
    \/ MainFinish
    \/ \E cid \in Units : \E char \in Chars : GptAttempt(cid, char)
    \/ HypGather
    \/ NarratorAttempt
    \/ HypWrite

Spec == Init /\ [][Next]_vars

\* The event loop runs every ready coroutine and every request ends (with a
\* reply or an exception, the client's own timeout included).
FairSpec == Spec /\ WF_vars(Next)

\* ==================================================== score_candidate_sites
\* Floating-point values: a finite number n/d in lowest terms (d > 0), NaN,
\* or an infinity of sign s.
RECURSIVE GCD(_, _)
GCD(a, b) == IF b = 0 THEN a ELSE GCD(b, a % b)

AbsInt(n) == IF n < 0 THEN -n ELSE n

Num(n, d) ==
    LET sn == IF d < 0 THEN -n ELSE n
        sd == AbsInt(d)
        g == GCD(AbsInt(sn), sd)
    IN [k |-> "num", n |-> sn \div g, d |-> sd \div g]

NaN == [k |-> "nan"]
Inf(s) == [k |-> "inf", s |-> s]
Zero == Num(0, 1)
One == Num(1, 1)

IsNaN(x) == x.k = "nan"
IsFinite(x) == x.k = "num"
Sign(x) == IF x.k = "inf" THEN x.s
           ELSE IF x.n > 0 THEN 1 ELSE IF x.n < 0 THEN -1 ELSE 0

FNeg(x) == IF x.k = "nan" THEN NaN
           ELSE IF x.k = "inf" THEN Inf(-x.s)
           ELSE Num(-x.n, x.d)

FAbs(x) == IF x.k = "nan" THEN NaN
           ELSE IF x.k = "inf" THEN Inf(1)
           ELSE Num(AbsInt(x.n), x.d)

FAdd(a, b) ==
    IF IsNaN(a) \/ IsNaN(b) THEN NaN
    ELSE IF a.k = "inf" /\ b.k = "inf" THEN (IF a.s = b.s THEN a ELSE NaN)
    ELSE IF a.k = "inf" THEN a
    ELSE IF b.k = "inf" THEN b
    ELSE Num(a.n * b.d + b.n * a.d, a.d * b.d)

FSub(a, b) == FAdd(a, FNeg(b))

FMul(a, b) ==
    IF IsNaN(a) \/ IsNaN(b) THEN NaN
    ELSE IF a.k = "inf" \/ b.k = "inf"
         THEN (IF Sign(a) * Sign(b) = 0 THEN NaN ELSE Inf(Sign(a) * Sign(b)))
    ELSE Num(a.n * b.n, a.d * b.d)

\* numpy true division: x/0 is an infinity (NaN for 0/0), with a warning only.
FDiv(a, b) ==
    IF IsNaN(a) \/ IsNaN(b) THEN NaN
    ELSE IF b.k = "inf" THEN (IF a.k = "inf" THEN NaN ELSE Zero)
    ELSE IF a.k = "inf" THEN Inf(IF Sign(b) < 0 THEN -a.s ELSE a.s)
    ELSE IF b.n = 0 THEN (IF a.n = 0 THEN NaN ELSE Inf(Sign(a)))
    ELSE Num(a.n * b.d, a.d * b.n)

\* a < b; FALSE when either is NaN.
FLess(a, b) ==
    IF IsNaN(a) \/ IsNaN(b) THEN FALSE
    ELSE IF a.k = "inf" THEN a.s < 0 /\ ~(b.k = "inf" /\ b.s < 0)
    ELSE IF b.k = "inf" THEN b.s > 0
    ELSE a.n * b.d < b.n * a.d

FLeq(a, b) == ~IsNaN(a) /\ ~IsNaN(b) /\ ~FLess(b, a)

\* np.clip(x, lo, hi) = minimum(maximum(x, lo), hi); NaN stays NaN.
FClip(x, lo, hi) ==
    IF IsNaN(x) THEN NaN
    ELSE IF FLess(x, lo) THEN lo
    ELSE IF FLess(hi, x) THEN hi
    ELSE x

\* The five columns the script scores, in the order compute_score_vec
\* processes them.
FeatureSeq == <<"ndvi", "slope", "elevation", "carbon", "landcover">>
Features == {FeatureSeq[i] : i \in DOMAIN FeatureSeq}

\* A cell that holds text that is not a number.
Str == [k |-> "str"]

\* Values a cell of the input table can hold: absent (NaN), text, finite
\* numbers at, near and far from the configured ideal, and infinities.
RawValues(f) ==
    CASE f = "ndvi"      -> {NaN, Str, Num(1, 2), Num(-1, 1), Inf(1)}
      [] f = "slope"     -> {NaN, Num(60, 1)}
      [] f = "elevation" -> {NaN, Num(100, 1)}
      [] f = "carbon"    -> {NaN, Num(50, 1), Inf(-1)}
      [] f = "landcover" -> {NaN, Num(10, 1), Num(20, 1)}

\* The rows a table with the columns cols can hold.
RowsOf(cols) ==
    {[f \in cols |-> r[f]] :
        r \in [ndvi : RawValues("ndvi"), slope : RawValues("slope"),
               elevation : RawValues("elevation"), carbon : RawValues("carbon"),
               landcover : RawValues("landcover")]}

\* The tables gpd.read_file can return: all five columns, or one missing.
Tables ==
    UNION {[columns : {cols}, rows : [1 .. NumRows -> RowsOf(cols)]]
           : cols \in {Features} \cup {Features \ {f} : f \in Features}}

\* The contents of configs/weights.yml the model covers: the weights, and
\* which normalisation constant (if any) is not positive.
Weights == {<<2, 1, 1, 1, 1>>, <<0, 1, 1, 1, 1>>, <<0, 0, 0, 0, 0>>}
Config(w, bad) ==
    [ndvi      |-> [weight |-> Num(w[1], 1), ideal |-> Num(1, 2),
                    range |-> IF bad = "range" THEN Zero ELSE One],
     slope     |-> [weight |-> Num(w[2], 1),
                    max_deg |-> IF bad = "max_deg" THEN Zero ELSE Num(30, 1)],
     elevation |-> [weight |-> Num(w[3], 1), ideal |-> Num(100, 1),
                    range |-> Num(50, 1)],
     carbon    |-> [weight |-> Num(w[4], 1),
                    norm_div |-> IF bad = "norm_div" THEN Num(-100, 1) ELSE Num(100, 1)],
     landcover |-> [weight |-> Num(w[5], 1), pref_classes |-> {Num(10, 1)}]]
Configs == {Config(w, bad) : w \in Weights, bad \in {"none", "range", "max_deg", "norm_div"}}

\* pd.to_numeric(col, errors="coerce"): text that is no number becomes NaN.
ToNumeric(v) == IF v = Str THEN NaN ELSE v

\* A mask that counts every row.
ValidAlways(v) == TRUE

\* valid = ~np.isnan(col)
Valid(v) == ~IsNaN(v)

\* The per-feature score arrays of compute_score_vec, for one cell.
SubScore(f, v, c) ==
    CASE f = "ndvi"      -> FSub(One, FDiv(FAbs(FSub(v, c.ndvi.ideal)), c.ndvi.range))
      [] f = "slope"     -> FClip(FSub(One, FDiv(v, c.slope.max_deg)), Zero, One)
      [] f = "elevation" -> FSub(One, FDiv(FAbs(FSub(v, c.elevation.ideal)),
                                           c.elevation.range))
      [] f = "carbon"    -> FClip(FDiv(v, c.carbon.norm_div), Zero, One)
      [] f = "landcover" -> IF v \in c.landcover.pref_classes THEN One ELSE Zero

\* score[valid] += sub_score[valid] * weight; weights[valid] += weight, for
\* one row, after the first i features.
RECURSIVE Accumulate(_, _, _)
Accumulate(row, c, i) ==
    IF i = 0 THEN [score |-> Zero, weights |-> Zero]
    ELSE LET acc == Accumulate(row, c, i - 1)
             f == FeatureSeq[i]
         IN IF Valid(row[f])
            THEN [score |-> FAdd(acc.score, FMul(SubScore(f, row[f], c), c[f].weight)),
                  weights |-> FAdd(acc.weights, c[f].weight)]
            ELSE acc

\* np.divide(score, weights, out=np.zeros_like(score), where=weights > 0)
Divide(acc) ==
    IF FLess(Zero, acc.weights) THEN FDiv(acc.score, acc.weights) ELSE Zero

compute_score_vec(d, c) ==
    [i \in DOMAIN d.rows |-> Divide(Accumulate(d.rows[i], c, Len(FeatureSeq)))]

\* gdf.fillna(0)
Fillna0(v) == IF IsNaN(v) THEN Zero ELSE v

\* ------------------------------------------- score_candidate_sites.main
ScoreInit ==
    /\ script = "score"
    /\ prompt_cfg = [summary |-> TRUE, broken |-> {}]
    /\ geometry = [u \in Units |-> TRUE]
    /\ credential_ok = TRUE
    /\ site_pc = [u \in Units |-> "created"]
    /\ attempt_number = [u \in Units |-> [k \in Keys |-> 0]]
    /\ char_results = [u \in Units |-> [c \in Chars |-> Unset]]
    /\ summary_input = [u \in Units |-> Unset]
    /\ site_result = [u \in Units |-> Unset]
    /\ completed = <<>>
    /\ outputs = [u \in Units |-> Unset]
    /\ failed = <<>>
    /\ retry_failed = Unset
    /\ main_pc = "off"
    /\ responses = [u \in Units |-> [c \in Chars |-> Unset]]
    /\ cluster_results = [u \in Units |-> Unset]
    /\ narrator_input = [u \in Units |-> Unset]
    /\ narrator_results = [u \in Units |-> Unset]
    /\ report = [u \in Units |-> Unset]
    /\ hyp_pc = "off"
    /\ ClusterOff
    /\ df \in Tables
    /\ cfg \in Configs
    /\ site_score = Unset
    /\ ScoringOff
    /\ score_pc = "read"

orchestrator_vars == <<config_vars, attempt_number, dialogue_vars, hypotheses_vars>>

\* for col in [...]: if col in gdf.columns: gdf[col] = pd.to_numeric(...)
Coerce ==
    /\ score_pc = "read"
    /\ df' = [df EXCEPT !.rows =
                [i \in DOMAIN df.rows |-> [f \in df.columns |-> ToNumeric(df.rows[i][f])]]]
    /\ score_pc' = "coerced"
    /\ UNCHANGED <<cfg, site_score, orchestrator_vars, cluster_vars, scoring>>

\* missing = required - set(gdf.columns); if missing: sys.exit(1)
CheckColumns ==
    /\ score_pc = "coerced"
    /\ score_pc' = IF Features \ df.columns # {} THEN "exit" ELSE "checked"
    /\ UNCHANGED <<df, cfg, site_score, orchestrator_vars, cluster_vars, scoring>>

\* gdf["site_score"] = compute_score_vec(gdf, cfg)
ComputeScores ==
    /\ score_pc = "checked"
    /\ site_score' = compute_score_vec(df, cfg)
    /\ score_pc' = "scored"
    /\ UNCHANGED <<df, cfg, orchestrator_vars, cluster_vars, scoring>>

\* gdf.fillna(0, inplace=True), the site_score column included.
Fillna ==
    /\ score_pc = "scored"
    /\ df' = [df EXCEPT !.rows =
                [i \in DOMAIN df.rows |-> [f \in df.columns |-> Fillna0(df.rows[i][f])]]]
    /\ site_score' = [i \in DOMAIN site_score |-> Fillna0(site_score[i])]
    /\ score_pc' = "done"
    /\ UNCHANGED <<cfg, orchestrator_vars, cluster_vars, scoring>>

ScoreNext == Coerce \/ CheckColumns \/ ComputeScores \/ Fillna

ScoreSpec == ScoreInit /\ [][ScoreNext]_vars

\* ================================== generate_hypotheses.main, steps 1 to 4
\* Planar coordinates (metres, after projection) the sites of the model lie
\* at: five places one eps apart on a line.
Coords == <<0, 1000, 2000, 3000, 4000>>

\* site_score values of the input file: a lower and a higher score.
Low == Num(1, 5)
High == Num(4, 5)

\* A row of the input file, and its place in the canonical order of rows.
SiteRow(x, s) == [x |-> x, y |-> 0, site_score |-> s]
ScoredKinds ==
    [k \in 1 .. (2 * Len(Coords)) |->
        SiteRow(Coords[((k - 1) \div 2) + 1], IF k % 2 = 1 THEN Low ELSE High)]
UnscoredKinds == [k \in 1 .. Len(Coords) |-> SiteRow(Coords[k], NaN)]

\* The non-decreasing sequences of length n over 1 .. k.
RECURSIVE NonDecreasing(_, _)
NonDecreasing(n, k) ==
    IF n = 0 THEN {<<>>}
    ELSE UNION {{Append(s, j) : j \in (IF Len(s) = 0 THEN 1 ELSE s[Len(s)]) .. k}
                : s \in NonDecreasing(n - 1, k)}

\* The order of the rows in the file: by ascending x, or ascending from the
\* middle row on and then the first rows (descending x is the mirror image
\* of ascending x).
Orders == {"asc", "rot"}
Arrange(s, order) ==
    LET n == Len(s)
        h == n \div 2
    IN CASE order = "asc"  -> s
         [] order = "rot"  -> [i \in 1 .. n |-> s[((i - 1 + h) % n) + 1]]

\* The input files of the model: up to NumSites rows, either every row
\* scored, all with the higher score except possibly a single row, or no row
\* scored. HighRows and WithLow give the places of the rows in ScoredKinds.
HighRows(n) == {[i \in 1 .. n |-> 2 * s[i]] : s \in NonDecreasing(n, Len(Coords))}
WithLow(s, k) ==
    SelectSeq(s, LAMBDA e : e < k) \o <<k>> \o SelectSeq(s, LAMBDA e : e > k)
Files ==
    UNION {{[i \in 1 .. n |-> UnscoredKinds[s[i]]] : s \in NonDecreasing(n, Len(UnscoredKinds))}
           : n \in 0 .. NumSites}
    \cup
    UNION {{[i \in DOMAIN s |-> ScoredKinds[s[i]]] : s \in HighRows(n)}
           : n \in 0 .. NumSites}
    \cup
    UNION {{[i \in 1 .. (n + 1) |-> ScoredKinds[WithLow(s, (2 * p) - 1)[i]]]
              : s \in HighRows(n), p \in DOMAIN Coords}
           : n \in 0 .. (NumSites - 1)}

\* The contents of configs/cluster.yml the model covers.
ClusterConfigs ==
    [top_quantile : {Num(9, 10)}, eps_km : {1}, min_samples : {3, 4}]

\* ---- step 1: the top-quantile filter
\* The k-th smallest (k = 0, 1, ...) of the values of a sequence.
OrderStat(vals, k) ==
    CHOOSE v \in {vals[i] : i \in DOMAIN vals} :
        /\ Cardinality({j \in DOMAIN vals : FLess(vals[j], v)}) <= k
        /\ k < Cardinality({j \in DOMAIN vals : FLeq(vals[j], v)})

\* Series.quantile(q): NaN entries are skipped, the position (n - 1) * q is
\* interpolated linearly between its two neighbours in ascending order; NaN
\* for no value at all.
Quantile(vals, q) ==
    LET numbers == SelectSeq(vals, LAMBDA v : ~IsNaN(v))
        n == Len(numbers)
        pos == (n - 1) * q.n
        lo == pos \div q.d
        hi == IF lo + 1 < n THEN lo + 1 ELSE lo
        frac == Num(pos % q.d, q.d)
        a == OrderStat(numbers, lo)
        b == OrderStat(numbers, hi)
    IN IF n = 0 THEN NaN
       ELSE FAdd(a, FMul(frac, FSub(b, a)))

\* gdf[gdf["site_score"] >= threshold]: the rows keep their index.
TopRows(rows, threshold) ==
    SelectSeq([i \in DOMAIN rows |-> [id |-> i, x |-> rows[i].x, y |-> rows[i].y,
                                      site_score |-> rows[i].site_score]],
              LAMBDA r : FLeq(threshold, r.site_score))

\* A frame that is never found empty.
EmptyNever(rows) == FALSE

\* DataFrame.empty
Empty(rows) == rows = <<>>

\* ---- step 3: DBSCAN(eps, min_samples).fit_predict(coords)
Dist2(p, q) == (p.x - q.x) * (p.x - q.x) + (p.y - q.y) * (p.y - q.y)

\* eps_m = eps_km * 1000.0
EpsM(c) == c.eps_km * 1000

\* The eps-neighbourhood of row i: every row within eps, i itself included.
Neighbourhood(rows, c, i) ==
    {j \in DOMAIN rows : Dist2(rows[i], rows[j]) <= EpsM(c) * EpsM(c)}

\* neighborhoods = neighbors_model.radius_neighbors(X)
Neighbourhoods(rows, c) == [i \in DOMAIN rows |-> Neighbourhood(rows, c, i)]

\* A core test that does not count the row itself.
CoreSamplesStrict(nbr, c) == {i \in DOMAIN nbr : Cardinality(nbr[i]) > c.min_samples}

\* core_samples = n_neighbors >= min_samples
CoreSamples(nbr, c) == {i \in DOMAIN nbr : Cardinality(nbr[i]) >= c.min_samples}

\* The depth-first expansion from a core row: the unlabelled rows reached
\* through neighbourhoods of core rows.
RECURSIVE Grow(_, _, _, _)
Grow(nbr, core, labels, S) ==
    LET T == S \cup {j \in DOMAIN nbr :
                        labels[j] = -1 /\ \E i \in S \cap core : j \in nbr[i]}
    IN IF T = S THEN S ELSE Grow(nbr, core, labels, T)

\* The loop over the rows in input order: an unlabelled core row starts the
\* cluster with the next label.
RECURSIVE Scan(_, _, _, _, _)
Scan(nbr, core, i, labels, label_num) ==
    IF i > Len(nbr) THEN labels
    ELSE IF labels[i] # -1 \/ i \notin core
         THEN Scan(nbr, core, i + 1, labels, label_num)
         ELSE LET C == Grow(nbr, core, labels, {i})
              IN Scan(nbr, core, i + 1,
                      [j \in DOMAIN nbr |-> IF j \in C THEN label_num ELSE labels[j]],
                      label_num + 1)

fit_predict(rows, c) ==
    LET nbr == Neighbourhoods(rows, c)
    IN Scan(nbr, CoreSamples(nbr, c), 1, [j \in DOMAIN rows |-> -1], 0)

\* gdf_proj[gdf_proj["cluster"] != -1]
WithCluster(rows, labels) ==
    [j \in DOMAIN rows |-> [id |-> rows[j].id, x |-> rows[j].x, y |-> rows[j].y,
                            site_score |-> rows[j].site_score, cluster |-> labels[j]]]
DropNoise(rows) == SelectSeq(rows, LAMBDA r : r.cluster # -1)

\* ---- step 4: one record per cluster
\* The group keys in descending order.
RECURSIVE GroupKeysDescending(_)
GroupKeysDescending(S) ==
    IF S = {} THEN <<>>
    ELSE LET m == CHOOSE k \in S : \A l \in S : l <= k
         IN <<m>> \o GroupKeysDescending(S \ {m})

\* groupby("cluster"): the group keys in ascending order.
RECURSIVE GroupKeys(_)
GroupKeys(S) ==
    IF S = {} THEN <<>>
    ELSE LET m == CHOOSE k \in S : \A l \in S : k <= l
         IN <<m>> \o GroupKeys(S \ {m})

\* The record of a group: its id and len(sub) (the hull and the score
\* statistics are left out).
ClusterRecord(rows, cid) ==
    [cluster |-> cid, n_pts |-> Len(SelectSeq(rows, LAMBDA r : r.cluster = cid))]

Records(rows) ==
    LET keys == GroupKeys({rows[j].cluster : j \in DOMAIN rows})
    IN [k \in DOMAIN keys |-> ClusterRecord(rows, keys[k])]

\* ---- the steps of main
ClusterInit ==
    /\ script = "hypotheses"
    /\ prompt_cfg = [summary |-> TRUE, broken |-> {}]
    /\ geometry = [u \in Units |-> TRUE]
    /\ credential_ok = TRUE
    /\ site_pc = [u \in Units |-> "created"]
    /\ attempt_number = [u \in Units |-> [k \in Keys |-> 0]]
    /\ char_results = [u \in Units |-> [c \in Chars |-> Unset]]
    /\ summary_input = [u \in Units |-> Unset]
    /\ site_result = [u \in Units |-> Unset]
    /\ completed = <<>>
    /\ outputs = [u \in Units |-> Unset]
    /\ failed = <<>>
    /\ retry_failed = Unset
    /\ main_pc = "off"
    /\ responses = [u \in Units |-> [c \in Chars |-> Unset]]
    /\ cluster_results = [u \in Units |-> Unset]
    /\ narrator_input = [u \in Units |-> Unset]
    /\ narrator_results = [u \in Units |-> Unset]
    /\ report = [u \in Units |-> Unset]
    /\ ScoreOff
    /\ \E f \in Files : \E order \in Orders :
          gdf = [kind |-> "frame", rows |-> Arrange(f, order)]
    /\ cluster_cfg \in ClusterConfigs
    /\ gdf_proj = Unset
    /\ records = Unset
    /\ geojson = Unset
    /\ ScoringOff
    /\ hyp_pc = "filter"

cluster_unchanged ==
    <<config_vars, attempt_number, dialogue_vars, responses, cluster_results,
      narrator_input, narrator_results, report, score_vars, gdf, cluster_cfg,
      scoring>>

\* 1. top = gdf[site_score >= quantile]; RuntimeError when top.empty;
\* 2. gdf_proj = project_gdf(top) (the coordinates of the model are planar).
Filter ==
    /\ hyp_pc = "filter"
    /\ LET scores == [i \in DOMAIN gdf.rows |-> gdf.rows[i].site_score]
           top == TopRows(gdf.rows, Quantile(scores, cluster_cfg.top_quantile))
       IN IF Empty(top)
          THEN hyp_pc' = "aborted" /\ UNCHANGED gdf_proj
          ELSE /\ gdf_proj' = [kind |-> "frame", rows |-> top]
               /\ hyp_pc' = "dbscan"
    /\ UNCHANGED <<cluster_unchanged, records, geojson>>

\* 3. the cluster column, noise dropped; RuntimeError when nothing is left.
Dbscan ==
    /\ hyp_pc = "dbscan"
    /\ LET labelled == WithCluster(gdf_proj.rows, fit_predict(gdf_proj.rows, cluster_cfg))
           kept == DropNoise(labelled)
       IN /\ gdf_proj' = [kind |-> "frame", rows |-> kept]
          /\ hyp_pc' = IF Empty(kept) THEN "aborted" ELSE "polygons"
    /\ UNCHANGED <<cluster_unchanged, records, geojson>>

\* 4. records.append({...}) for cid, sub in gdf_proj.groupby("cluster")
Polygons ==
    /\ hyp_pc = "polygons"
    /\ records' = [kind |-> "list", items |-> Records(gdf_proj.rows)]
    /\ hyp_pc' = "write"
    /\ UNCHANGED <<cluster_unchanged, gdf_proj, geojson>>

\* clusters_latlon.to_file(out_geojson, driver="GeoJSON")
WriteGeojson ==
    /\ hyp_pc = "write"
    /\ geojson' = [kind |-> "file", features |-> records.items]
    /\ hyp_pc' = "tasks"
    /\ UNCHANGED <<cluster_unchanged, gdf_proj, records>>

\* 5-A. one task per (cluster row, character); main then waits in the gather.
CreateTasks ==
    /\ hyp_pc = "tasks"
    /\ hyp_pc' = "gather"
    /\ UNCHANGED <<cluster_unchanged, gdf_proj, records, geojson>>

ClusterNext == Filter \/ Dbscan \/ Polygons \/ WriteGeojson \/ CreateTasks

ClusterSpec == ClusterInit /\ [][ClusterNext]_vars

\* ================================= json_comments_to_scores.process_json_file
\* retries=3, the default gpt_with_retry is called with.
Retries == 3

\* Python's None.
PyNone == [kind |-> "none"]

\* The contents the evaluator answers with: a score, a number without a
\* decimal point, and words.
Content(t) == [kind |-> "text", text |-> t]
Replies == {Content("0.75"), Content("1"), Content("high")}

\* extract_score: the first match of ([0]?\.\d{1,2}|1\.00?) as a float, None
\* without a match ("1" has no decimal point) and None for an argument that
\* is no string (re.search raises, the bare except returns None).
extract_score(text) ==
    IF text.kind = "text" /\ text.text = "0.75" THEN Num(3, 4) ELSE PyNone

\* The outcomes of client.chat.completions.create: a response, a rate-limit
\* error, or another error.
CreateOutcomes ==
    {[kind |-> "ok", content |-> t] : t \in Replies}
    \cup {[kind |-> "rate_limit"], [kind |-> "other"]}

\* data["characters"]: up to NumChars characters, in the order of the file;
\* a comment is empty or it is text.
CharacterFiles ==
    UNION {[1 .. n -> {"", "text"}] : n \in 0 .. NumChars}

\* process_json_file is called; has_openai_error tells whether
\* openai.error exists in the installed openai package (the expression of
\* the first except clause is evaluated when create raises).
ScoringInit ==
    /\ script = "comments"
    /\ prompt_cfg = [summary |-> TRUE, broken |-> {}]
    /\ geometry = [u \in Units |-> TRUE]
    /\ credential_ok = TRUE
    /\ site_pc = [u \in Units |-> "created"]
    /\ attempt_number = [u \in Units |-> [k \in Keys |-> 0]]
    /\ char_results = [u \in Units |-> [c \in Chars |-> Unset]]
    /\ summary_input = [u \in Units |-> Unset]
    /\ site_result = [u \in Units |-> Unset]
    /\ completed = <<>>
    /\ outputs = [u \in Units |-> Unset]
    /\ failed = <<>>
    /\ retry_failed = Unset
    /\ main_pc = "off"
    /\ responses = [u \in Units |-> [c \in Chars |-> Unset]]
    /\ cluster_results = [u \in Units |-> Unset]
    /\ narrator_input = [u \in Units |-> Unset]
    /\ narrator_results = [u \in Units |-> Unset]
    /\ report = [u \in Units |-> Unset]
    /\ hyp_pc = "off"
    /\ ScoreOff
    /\ ClusterOff
    /\ \E has \in BOOLEAN, file \in CharacterFiles :
          scoring = [kind |-> "run",
                     has_openai_error |-> has,
                     characters |-> file,   \* characters[char]: the comment
                     char |-> 1,            \* the character the loop is at
                     result |-> <<>>,       \* result[char]: the <char>_score
                     pc |-> "loop",
                     i |-> 0,               \* loop variable of gpt_with_retry
                     requests |-> <<>>,     \* outcomes of the requests of the call
                     calls |-> <<>>]        \* how each call of gpt_with_retry ended

scoring_unchanged ==
    <<config_vars, attempt_number, dialogue_vars, hypotheses_vars, score_vars,
      cluster_vars>>

\* gpt_with_retry ends, by the return of value or by an exception (value is
\* then Raised(type)); score_from_comment hands a returned value to
\* extract_score and lets an exception pass; process_json_file stores the
\* score, or None in its except clause, and goes on with the next character.
EndCall(reqs, value) ==
    [scoring EXCEPT
        !.calls = Append(@, [char |-> scoring.char, requests |-> reqs, value |-> value]),
        !.result = Append(@, IF value.kind = "raise" THEN PyNone
                             ELSE extract_score(value)),
        !.requests = reqs,
        !.char = @ + 1,
        !.pc = "loop"]

\* for i in range(retries): another pass while i < retries.
MoreAttempts(i) == i < Retries

\* for char, content in characters.items(): an empty comment is skipped with
\* the score None; otherwise score_from_comment calls gpt_with_retry.
NextCharacter ==
    /\ scoring.kind = "run"
    /\ scoring.pc = "loop"
    /\ scoring.char <= Len(scoring.characters)
    /\ scoring' =
          IF scoring.characters[scoring.char] = ""
          THEN [scoring EXCEPT !.result = Append(@, PyNone), !.char = @ + 1]
          ELSE [scoring EXCEPT !.pc = IF MoreAttempts(0) THEN "request" ELSE "exhausted",
                               !.i = 0, !.requests = <<>>]
    /\ UNCHANGED scoring_unchanged

\* range(retries) is empty or used up: return None.
Exhausted ==
    /\ scoring.kind = "run"
    /\ scoring.pc = "exhausted"
    /\ scoring' = EndCall(scoring.requests, PyNone)
    /\ UNCHANGED scoring_unchanged

\* One pass of the loop body of gpt_with_retry: the request and its handler.
\* A response is returned stripped.  When create raises, the except clauses
\* are tried in order: evaluating openai.error.RateLimitError raises
\* AttributeError when openai has no error module, and that exception leaves
\* gpt_with_retry; otherwise a rate-limit error goes to time.sleep and
\* another error breaks out of the loop to return None.
Request ==
    /\ scoring.kind = "run"
    /\ scoring.pc = "request"
    /\ \E o \in CreateOutcomes :
          LET reqs == Append(scoring.requests, o.kind)
          IN scoring' =
                IF o.kind = "ok" THEN EndCall(reqs, o.content)
                ELSE IF ~scoring.has_openai_error
                     THEN EndCall(reqs, Raised("AttributeError"))
                ELSE IF o.kind = "rate_limit"
                     THEN [scoring EXCEPT !.requests = reqs, !.pc = "sleep"]
                ELSE EndCall(reqs, PyNone)
    /\ UNCHANGED scoring_unchanged

\* time.sleep(delay) is over: the next i of range(retries), if any.
Sleep ==
    /\ scoring.kind = "run"
    /\ scoring.pc = "sleep"
    /\ scoring' = [scoring EXCEPT
                      !.i = @ + 1,
                      !.pc = IF MoreAttempts(scoring.i + 1) THEN "request"
                             ELSE "exhausted"]
    /\ UNCHANGED scoring_unchanged

\* result["summary"] = ...; return result
ReturnResult ==
    /\ scoring.kind = "run"
    /\ scoring.pc = "loop"
    /\ scoring.char > Len(scoring.characters)
    /\ scoring' = [scoring EXCEPT !.pc = "returned"]
    /\ UNCHANGED scoring_unchanged

ScoringNext == NextCharacter \/ Request \/ Sleep \/ Exhausted \/ ReturnResult

ScoringSpec == ScoringInit /\ [][ScoringNext]_vars

\* ================================================================ claims
Dialogue == script = "dialogue"
Hypotheses == script = "hypotheses"

\* The run is over: main returned, or an exception left it.
Terminated == main_pc = "done" \/ hyp_pc \in {"written", "aborted"}

\* A record file exists for unit u.
Emitted(u) == outputs[u] # Unset

\* The ledger entries that carry the id of unit u.
LedgerEntries(u) == {i \in DOMAIN failed : failed[i][1] = SiteId(u)}

\* Unit u cannot be built (no geometry) or a prompt of it cannot be rendered.
Malformed(u) == ~geometry[u] \/ prompt_cfg.broken # {}

\* The summary call of unit u exhausted its retries.
SummaryFailed(u) ==
    /\ summary_input[u] # Unset
    /\ site_pc[u] = "raised"

\* ---------------------------------------------------------------- C1
\* C1: when the batch loop of generate_character_dialogue.main has finished,
\* every submitted unit id has either a record or exactly one ledger entry,
\* never both, and every ledger entry carries the id of a submitted unit.
C1_ExactlyOnce ==
    main_pc = "done" =>
        /\ \A u \in Units :
              \/ Emitted(u) /\ LedgerEntries(u) = {}
              \/ ~Emitted(u) /\ Cardinality(LedgerEntries(u)) = 1
        /\ \A i \in DOMAIN failed : \E u \in Units : failed[i][1] = SiteId(u)

\* ---------------------------------------------------------------- C2
\* C2: for distinct units U and V of one batch, a permanent failure of a task
\* of U never costs V its record: once the run is over, if every task of V
\* got its reply, the batch did not abort and V's record was produced.
HasFailedTask(u) ==
    \/ \E c \in Chars : char_results[u][c].kind = "[Error]"
    \/ \E c \in Chars : responses[u][c].kind = "raise"
    \/ SummaryFailed(u)

OwnTasksSucceeded(v) ==
    \/ /\ Dialogue
       /\ \A c \in Chars : char_results[v][c].kind = "text"
       /\ site_pc[v] = "returned"
    \/ /\ Hypotheses
       /\ \A c \in Chars : responses[v][c].kind = "text"

C2_Isolation ==
    \A U, V \in Units :
        (U # V /\ Terminated /\ HasFailedTask(U) /\ OwnTasksSucceeded(V)) =>
            /\ hyp_pc # "aborted"
            /\ Dialogue => Emitted(V)
            /\ Hypotheses => report[V] # Unset

\* ---------------------------------------------------------------- C3
\* C3: for every (unit, character) task that failed permanently, the unit's
\* record is emitted with an error placeholder for that character and the
\* ledger holds exactly one entry for it; a character that succeeded keeps
\* its text.
C3_PlaceholderAndLedger ==
    main_pc = "done" =>
        \A u \in Units : \A c \in Chars :
            /\ char_results[u][c].kind = "[Error]" =>
                  /\ Emitted(u)
                  /\ outputs[u].characters[c] = char_results[u][c]
                  /\ Cardinality(LedgerEntries(u)) = 1
            /\ (char_results[u][c].kind = "text" /\ Emitted(u)) =>
                  outputs[u].characters[c] = Reply(u, c)

CallFailed(u, k) ==
    IF k = "summary"
    THEN \/ SummaryFailed(u)
         \/ /\ hyp_pc = "aborted"
            /\ cluster_results[u] # Unset
            /\ narrator_input[u] # Unset
            /\ narrator_results[u] = Unset
    ELSE \/ char_results[u][k].kind = "[Error]"
         \/ responses[u][k].kind = "raise"

CallEnded(u, k) ==
    \/ CallFailed(u, k)
    \/ IF k = "summary"
       THEN site_pc[u] = "returned" \/ narrator_results[u] # Unset
       ELSE char_results[u][k] # Unset \/ responses[u][k] # Unset

C5_State ==
    \A u \in Units : \A k \in Keys :
        /\ attempt_number[u][k] <= 5
        /\ CallFailed(u, k) <=> attempt_number[u][k] = 5

C5_Step ==
    \A u \in Units : \A k \in Keys :
        /\ attempt_number'[u][k] \in {attempt_number[u][k], attempt_number[u][k] + 1, 0}
        /\ CallEnded(u, k) => attempt_number'[u][k] = attempt_number[u][k]

C5_BoundedAttempts == []C5_State /\ [][C5_Step]_vars /\ <>Terminated

\* A dialogue batch in which every request of every task failed has ended.
C5_Witness ==
    /\ main_pc = "done"
    /\ ~credential_ok
    /\ \A u \in Units : \A c \in Chars :
          char_results[u][c] = ErrorText(FatalError)
    /\ \A u \in Units : SummaryFailed(u) /\ attempt_number[u]["summary"] = 5

\* ---------------------------------------------------------------- C6
\* C6: the summary (narrator) request of a unit is issued only after every
\* character task of that unit has settled, and its input holds exactly the
\* settled outputs of those tasks.
SummaryIssued(u) ==
    \/ attempt_number[u]["summary"] > 0
    \/ Dialogue /\ site_pc[u] = "summary"
    \/ Dialogue /\ site_result[u] # Unset /\ site_result[u].kind = "record"
          /\ prompt_cfg.summary
    \/ narrator_results[u] # Unset

C6_SummaryAfterCharacters ==
    \A u \in Units :
        /\ (Dialogue /\ (SummaryIssued(u) \/ summary_input[u] # Unset)) =>
              /\ summary_input[u] # Unset
              /\ \A c \in Chars :
                    /\ char_results[u][c].kind \in {"text", "[Error]"}
                    /\ summary_input[u][c] = char_results[u][c]
              /\ \A k \in OpinionKeys \ Chars : summary_input[u][k] = EmptyText
        /\ (Hypotheses /\ (SummaryIssued(u) \/ narrator_input[u] # Unset)) =>
              /\ narrator_input[u] # Unset
              /\ \A c \in Chars : responses[u][c] = Reply(u, c)
              /\ narrator_input[u] = responses[u]

\* A summary request was made for a unit one of whose characters failed
\* permanently while another one succeeded.
C6_Witness ==
    \E u \in Units : \E c, d \in Chars :
        /\ Dialogue
        /\ attempt_number[u]["summary"] > 0
        /\ char_results[u][c].kind = "[Error]"
        /\ char_results[u][d].kind = "text"

\* ---------------------------------------------------------------- C7
\* C7: when the summary call of a unit fails permanently, the unit's record
\* is still emitted with the character texts already obtained and an error
\* placeholder in the summary field.
C7_SummaryFailureKeepsRecord ==
    main_pc = "done" =>
        \A u \in Units :
            SummaryFailed(u) =>
                /\ Emitted(u)
                /\ outputs[u].characters = char_results[u]
                /\ outputs[u].summary.kind = "[Error]"

\* ---------------------------------------------------------------- C8
\* C8: a request that failed with a configuration error (a rejected
\* credential) is never retried: with the credential rejected no call makes
\* a second request.
C8_FatalNotRetried ==
    ~credential_ok => \A u \in Units : \A k \in Keys : attempt_number[u][k] <= 1

\* ---------------------------------------------------------------- C9
\* C9: for a unit that cannot be constructed or whose prompt cannot be
\* rendered no record is emitted, the ledger holds an entry with that unit's
\* own id, and every other unit is still processed.
C9_MalformedUnitInLedger ==
    main_pc = "done" =>
        \A u \in Units :
            /\ Malformed(u) => ~Emitted(u) /\ LedgerEntries(u) # {}
            /\ site_pc[u] \in {"returned", "raised"}

\* --------------------------------------------------------------- C10
\* C10: a record is emitted only when every character, and the summary if
\* configured, has resolved; its character mapping has exactly one entry per
\* registered character, each the character's reply or an error placeholder.
C10_RecordComplete ==
    \A u \in Units :
        Emitted(u) =>
            /\ site_pc[u] = "returned"
            /\ DOMAIN outputs[u].characters = Chars
            /\ \A c \in Chars :
                  /\ outputs[u].characters[c] = char_results[u][c]
                  /\ \/ outputs[u].characters[c] = Reply(u, c)
                     \/ outputs[u].characters[c].kind = "[Error]"
            /\ outputs[u].summary =
                  IF prompt_cfg.summary THEN Reply(u, "summary") ELSE EmptyText

\* A record was emitted that holds a reply for one character and an error
\* placeholder for another.
C10_Witness ==
    \E u \in Units : \E c, d \in Chars :
        /\ Emitted(u)
        /\ outputs[u].characters[c].kind = "[Error]"
        /\ outputs[u].characters[d] = Reply(u, d)

\* --------------------------------------------------------------- C11
\* C11: a unit all of whose own tasks have settled has its record written
\* without waiting for another unit: while its record is not written yet,
\* the writer can take its next step, whatever the other units are doing.
UnitSettled(u) ==
    \/ Dialogue /\ site_pc[u] = "returned"
    \/ /\ Hypotheses
       /\ \A c \in Chars : responses[u][c].kind = "text"
       /\ narrator_results[u] # Unset

Written(u) == IF Dialogue THEN Emitted(u) ELSE report[u] # Unset

WriterCanStep ==
    \/ Dialogue /\ main_pc = "loop" /\ AllStarted /\ completed # <<>>
    \/ Hypotheses /\ hyp_pc = "narrate" /\ \A cid \in Units : narrator_results[cid] # Unset

C11_EmittedWhenReady ==
    \A u \in Units :
        (UnitSettled(u) /\ ~Written(u)) =>
            /\ WriterCanStep
            /\ Dialogue => \E i \in DOMAIN completed : completed[i] = u

\* --------------------------------------------------------------- C20
\* C20: once the gather of generate_hypotheses.main has returned (every
\* request succeeded, possibly after retries), cluster_results has exactly
\* one entry per (cluster, character) pair, the entry is the text returned
\* for that cluster's and that character's request, and the narrator input
\* and the report section of a cluster hold that cluster's own texts only.
C20_AttributedByTask ==
    (Hypotheses /\ hyp_pc \in {"narrate", "written"}) =>
        /\ DOMAIN cluster_results = Units
        /\ \A cid \in Units :
              /\ DOMAIN cluster_results[cid] = Chars
              /\ \A char \in Chars : cluster_results[cid][char] = Reply(cid, char)
              /\ narrator_input[cid] # Unset =>
                    narrator_input[cid] = [char \in Chars |-> Reply(cid, char)]
              /\ report[cid] # Unset =>
                    report[cid].characters = [char \in Chars |-> Reply(cid, char)]

\* The narrator of the last cluster was asked, with the texts of that
\* cluster, after the narrator of the first cluster had answered.
C20_Witness ==
    /\ Hypotheses
    /\ hyp_pc = "narrate"
    /\ narrator_results[0] = Reply(0, "summary")
    /\ narrator_input[NumUnits - 1] = [char \in Chars |-> Reply(NumUnits - 1, char)]
    /\ attempt_number[NumUnits - 1]["summary"] > 0

\* ------------------------------------------------------ scoring claims
\* The configuration has non-negative weights and positive normalisation
\* constants.
WeightsNonNegative(c) == \A f \in Features : FLeq(Zero, c[f].weight)
ConfigValid(c) ==
    /\ FLess(Zero, c.ndvi.range)
    /\ FLess(Zero, c.elevation.range)
    /\ FLess(Zero, c.slope.max_deg)
    /\ FLess(Zero, c.carbon.norm_div)

Scored == score_pc = "scored"
HasScores == score_pc \in {"scored", "done"}

\* --------------------------------------------------------------- C12
\* C12: with non-negative weights and positive range/max_deg/norm_div the
\* score of every site lies in [0, 1], whatever finite values its present
\* features hold and whichever features are absent.
C12_ScoreInUnitInterval ==
    (/\ HasScores
     /\ WeightsNonNegative(cfg)
     /\ ConfigValid(cfg)
     /\ \A i \in DOMAIN df.rows : \A f \in Features :
            IsFinite(df.rows[i][f]) \/ IsNaN(df.rows[i][f])) =>
        \A i \in DOMAIN site_score :
            FLeq(Zero, site_score[i]) /\ FLeq(site_score[i], One)

\* --------------------------------------------------------------- C13
\* C13: a site's score is the sum of weight x sub-score over its present
\* features divided by the sum of the weights of its present features; an
\* absent feature enters neither sum; a site whose present-feature weight
\* sum is 0 scores exactly 0.
Present(row) == {f \in Features : ~IsNaN(row[f])}

RECURSIVE WeightedSum(_, _, _)
WeightedSum(S, row, c) ==
    IF S = {} THEN Zero
    ELSE LET f == CHOOSE g \in S : TRUE
         IN FAdd(FMul(c[f].weight, SubScore(f, row[f], c)),
                 WeightedSum(S \ {f}, row, c))

RECURSIVE WeightSum(_, _)
WeightSum(S, c) ==
    IF S = {} THEN Zero
    ELSE LET f == CHOOSE g \in S : TRUE
         IN FAdd(c[f].weight, WeightSum(S \ {f}, c))

C13_RenormalisedOverPresent ==
    Scored =>
        \A i \in DOMAIN df.rows :
            LET P == Present(df.rows[i])
                W == WeightSum(P, cfg)
            IN IF W = Zero
               THEN site_score[i] = Zero
               ELSE site_score[i] = FDiv(WeightedSum(P, df.rows[i], cfg), W)

\* A site with ndvi at its ideal (weight 2), a slope beyond max_deg (weight
\* 1) and nothing else is scored 2/3: the weighted mean over its two present
\* features, not over all five.
C13_Witness ==
    /\ Scored
    /\ cfg = Config(<<2, 1, 1, 1, 1>>, "none")
    /\ Present(df.rows[1]) = {"ndvi", "slope"}
    /\ df.rows[1].ndvi = Num(1, 2)
    /\ df.rows[1].slope = Num(60, 1)
    /\ site_score[1] = Num(2, 3)

\* --------------------------------------------------------------- C14
\* C14: scores are produced only when every normalisation constant of the
\* configuration is positive and every required column exists; otherwise
\* scoring fails and no score is returned.
C14_ConfigErrorNoScores ==
    HasScores => (ConfigValid(cfg) /\ df.columns = Features)

\* --------------------------------------------------------------- C15
\* C15: a non-numeric or non-finite value counts as absent: the site's score
\* equals the score of the same site with that feature missing, and it is a
\* finite number.
AsAbsent(row) == [f \in DOMAIN row |-> IF IsFinite(row[f]) THEN row[f] ELSE NaN]

C15_NonFiniteAsAbsent ==
    (Scored /\ ConfigValid(cfg)) =>
        \A i \in DOMAIN df.rows :
            /\ IsFinite(site_score[i])
            /\ site_score[i] =
                  Divide(Accumulate(AsAbsent(df.rows[i]), cfg, Len(FeatureSeq)))

\* --------------------------------------------------------------- C16
\* The cluster records exist.
Clustered == records.kind = "list"

\* The sites of the input file that pass the top-quantile filter.
Threshold ==
    Quantile([i \in DOMAIN gdf.rows |-> gdf.rows[i].site_score],
             cluster_cfg.top_quantile)
TopIds ==
    LET threshold == Threshold
    IN {i \in DOMAIN gdf.rows : FLeq(threshold, gdf.rows[i].site_score)}

\* Density, stated on the sites: a site is dense when at least min_samples
\* filtered sites, itself included, lie within eps of it; a filtered site is
\* noise when no dense site lies within eps of it.
Close(i, j) ==
    Dist2(gdf.rows[i], gdf.rows[j]) <= EpsM(cluster_cfg) * EpsM(cluster_cfg)
DenseAmong(top) ==
    {i \in top :
        Cardinality({j \in top : Close(i, j)}) >= cluster_cfg.min_samples}
NoiseAmong(top, dense) == {i \in top : ~ \E j \in dense : Close(i, j)}
DenseIds == DenseAmong(TopIds)
NoiseIds ==
    LET top == TopIds
    IN NoiseAmong(top, DenseAmong(top))
ClusteredIds ==
    LET top == TopIds
    IN top \ NoiseAmong(top, DenseAmong(top))

\* The member sites of the cluster with id cid, and the records site i is a
\* member of.
Members(cid) ==
    {gdf_proj.rows[j].id :
        j \in {k \in DOMAIN gdf_proj.rows : gdf_proj.rows[k].cluster = cid}}
RecordsOf(i) ==
    {k \in DOMAIN records.items : i \in Members(records.items[k].cluster)}

\* C16: the clusters partition the filtered sites that are not noise: each
\* such site is a member of exactly one record, a noise or filtered-out site
\* of none, no site is kept twice, and n_pts of a record is the size of its
\* member set.
C16_ClustersPartition ==
    Clustered =>
        LET clustered == ClusteredIds
        IN
        /\ \A i \in clustered : Cardinality(RecordsOf(i)) = 1
        /\ \A i \in DOMAIN gdf.rows \ clustered : RecordsOf(i) = {}
        /\ \A j, k \in DOMAIN gdf_proj.rows :
              gdf_proj.rows[j].id = gdf_proj.rows[k].id => j = k
        /\ \A k \in DOMAIN records.items :
              records.items[k].n_pts = Cardinality(Members(records.items[k].cluster))

\* Five sites within eps of each other and one isolated site, min_samples 3:
\* one record, of five points, and the isolated site in no cluster.
C16_Witness ==
    /\ Clustered
    /\ cluster_cfg.min_samples = 3
    /\ Len(gdf.rows) = 6
    /\ \A i \in 1 .. 5 : \A j \in 1 .. 5 : Close(i, j)
    /\ \A i \in 1 .. 5 : ~Close(i, 6)
    /\ TopIds = 1 .. 6
    /\ NoiseIds = {6}
    /\ records.items = <<[cluster |-> 0, n_pts |-> 5]>>
    /\ Members(0) = 1 .. 5

\* --------------------------------------------------------------- C17
\* C17: every cluster record has at least min_samples member sites.
C17_AtLeastMinSamples ==
    Clustered =>
        \A k \in DOMAIN records.items :
            records.items[k].n_pts >= cluster_cfg.min_samples

\* --------------------------------------------------------------- C18
Least(S) == CHOOSE m \in S : \A l \in S : m <= l

\* The dense sites density-connected to those of S; near[i] is the set of
\* dense sites within eps of the dense site i.
RECURSIVE DenseReach(_, _)
DenseReach(S, near) ==
    LET T == S \cup UNION {near[i] : i \in S}
    IN IF T = S THEN S ELSE DenseReach(T, near)

\* The label the clustering of the input determines for each clustered site:
\* the groups of density-connected dense sites are numbered from 0 in the
\* order of their first row in the file, and a site that is not dense takes
\* the lowest label among the dense sites within eps of it.
ExpectedLabels ==
    LET top == TopIds
        dense == DenseAmong(top)
        near == [i \in dense |-> {j \in dense : Close(i, j)}]
        leader == [i \in dense |-> Least(DenseReach({i}, near))]
        leaders == {leader[i] : i \in dense}
        rank == [i \in dense |-> Cardinality({l \in leaders : l < leader[i]})]
    IN [i \in top \ NoiseAmong(top, dense) |->
          IF i \in dense THEN rank[i]
          ELSE Least({rank[j] : j \in {d \in dense : Close(i, d)}})]

\* C18: the clustering is a function of the input file, its row order and
\* the configuration: every clustered site carries the label determined by
\* them, and the records are listed with one record per label, the ids
\* unique and strictly ascending.
C18_DeterministicAscendingIds ==
    Clustered =>
        LET expected == ExpectedLabels
            items == records.items
        IN /\ \A j \in DOMAIN gdf_proj.rows :
                 gdf_proj.rows[j].cluster = expected[gdf_proj.rows[j].id]
           /\ \A k, l \in DOMAIN items :
                 k < l => items[k].cluster < items[l].cluster
           /\ {items[k].cluster : k \in DOMAIN items}
                 = {expected[i] : i \in DOMAIN expected}

\* Two clusters, and the first row of the file belongs to the one with the
\* higher label: the records are in label order, not in the order in which
\* the clusters first appear in the input.
C18_Witness ==
    /\ Clustered
    /\ Len(records.items) = 2
    /\ records.items[1].cluster = 0
    /\ records.items[2].cluster = 1
    /\ gdf_proj.rows[1].id = 1
    /\ gdf_proj.rows[1].cluster = 1

\* --------------------------------------------------------------- C19
\* The filter leaves no site; every filtered site is noise.
NoSites == TopIds = {}
AllNoise ==
    LET top == TopIds
    IN top # {} /\ top = NoiseAmong(top, DenseAmong(top))

\* Nothing of the evaluation has started: no polygon record, no GeoJSON file,
\* no task and no request.
NothingIssued ==
    /\ records = Unset
    /\ geojson = Unset
    /\ hyp_pc \in {"filter", "dbscan", "aborted"}
    /\ \A u \in Units :
          /\ \A k \in Keys : attempt_number[u][k] = 0
          /\ \A c \in Chars : responses[u][c] = Unset

C19_State ==
    LET none == NoSites
        noise == AllNoise
    IN /\ (none \/ noise) => NothingIssued
       /\ hyp_pc = "aborted" => ((none \/ noise) /\ NothingIssued)
       /\ (none /\ hyp_pc # "filter") => (hyp_pc = "aborted" /\ gdf_proj = Unset)
       /\ (noise /\ hyp_pc \notin {"filter", "dbscan"}) => hyp_pc = "aborted"

\* C19: when the filter leaves no site, and when every filtered site is
\* noise, main is left by an error before any record, GeoJSON file, task or
\* request exists; it is left by such an error in these cases only, and no
\* step follows the error.
C19_EmptyStops == []C19_State /\ [][hyp_pc # "aborted"]_vars

\* Filtered sites exist, DBSCAN ran and labelled every one of them noise:
\* main was left by the error, with nothing written.
C19_Witness ==
    /\ hyp_pc = "aborted"
    /\ AllNoise
    /\ Len(gdf.rows) >= cluster_cfg.min_samples
    /\ gdf_proj.kind = "frame"
    /\ gdf_proj.rows = <<>>
    /\ geojson = Unset

\* --------------------------------------------------------------- C21
\* process_json_file is running or has returned.
Scoring == scoring.kind = "run"

\* The requests of one call of gpt_with_retry follow the retry rule: at most
\* Retries of them, a response or an error other than a rate limit only as
\* the last one.
RetryRule(reqs) ==
    /\ Len(reqs) <= Retries
    /\ \A k \in DOMAIN reqs : reqs[k] # "rate_limit" => k = Len(reqs)

\* A call that is over ended as the rule says: by a return, never by an
\* exception; with the content of the response when the last request got
\* one; after a rate-limit error only when no attempt was left; with None
\* when no request got a response.
EndedByRule(call) ==
    LET reqs == call.requests
        last == reqs[Len(reqs)]
    IN /\ RetryRule(reqs)
       /\ call.value.kind # "raise"
       /\ reqs # <<>>
       /\ last = "ok" => call.value \in Replies
       /\ last = "rate_limit" => (Len(reqs) = Retries /\ call.value = PyNone)
       /\ last = "other" => call.value = PyNone

\* C21: gpt_with_retry makes at most retries requests, returns the first
\* response, tries again after a rate-limit error while attempts remain,
\* stops at once after another error, and returns None, never raising, when
\* no request got a response; the character's score is then None and the
\* remaining characters of the file are processed.
C21_RetryUpToRetries ==
    Scoring =>
        /\ scoring.pc \in {"request", "sleep", "exhausted"} => RetryRule(scoring.requests)
        /\ \A k \in DOMAIN scoring.calls :
              LET call == scoring.calls[k]
              IN /\ EndedByRule(call)
                 /\ call.value \notin Replies => scoring.result[call.char] = PyNone
        /\ scoring.pc = "returned" => Len(scoring.result) = Len(scoring.characters)

====
